---- MODULE Spec2Model ----
(***************************************************************************)
(* sbspk: retrieval of small-body SPK kernels from JPL Horizons.           *)
(*                                                                         *)
(* The model follows src/sbspk/_sbspk.py: SBSPK.get loops over the targets,*)
(* SBSPK.__get_one strips the target, runs talk() and fetches the file,    *)
(* talk() drives the telnet dialogue through eleven blocking expect calls. *)
(*                                                                         *)
(* Texts are sequences of tokens.  A token is one character, except that   *)
(* a fixed word the code treats as a unit is one token: the label          *)
(* 'object ID:' of the transcript, the prefix 'ftp' of the locator line,   *)
(* the line break '\r\n', the separator '://', the two placeholders of the *)
(* file name template, and each fixed command line.                        *)
(*                                                                         *)
(* The channel is the pexpect child as talk() uses it: an expect call      *)
(* either returns the index of the matched pattern or raises               *)
(* pexpect.TIMEOUT once the timeout passed to it has elapsed.  The texts   *)
(* are ASCII; transport failures of the child (EOF) and of urlretrieve are *)
(* outside the model.  talk never closes the child: whether a child that   *)
(* is no longer referenced is closed at once depends on the interpreter.   *)
(*                                                                         *)
(* Four specifications: Spec (get over a list of targets), SpecTalk (one   *)
(* session against every transcript within the bounds), SpecSession (one   *)
(* session under fairness) and SpecName (the file name substitution).      *)
(***************************************************************************)
EXTENDS Integers, Sequences, FiniteSets

VARIABLES
    arg,                \* get: the `target` argument as passed (str or list)
    directory,          \* get: the `directory` argument
    timeout,            \* SBSPK.timeout of the instance
    targets,            \* get: `target` after the isinstance normalisation
    idx,                \* get: position of the for loop (0 before the loop)
    pc,                 \* where get is: idle, talk, fetch, returned, raised
    paths_and_objids,   \* get: the list built by the loop
    retval,             \* what get returned to its caller
    raised,             \* the exception that left get
    fetched,            \* the urlretrieve calls made, in order
    log,                \* the order of session and fetch events
    outcomes,           \* the outcome of each session that has ended
    target,             \* __get_one / talk: the stripped target
    step,               \* talk: number of the expect call it is blocked in
    waited,             \* talk: time spent in the current expect call
    expects,            \* talk: expect calls made by the current session
    sent,               \* talk: lines given to sendline, in order
    rtn,                \* talk: the index the last expect call returned
    before,             \* talk: th.before as read at the e-mail prompt
    after,              \* talk: th.after as read at the locator line
    OBJID,              \* talk: the parsed object ID
    FTPURL,             \* talk: the extracted locator
    exc,                \* talk: the exception raised inside the session
    children,           \* the sessions whose telnet child has not been closed
    refcounting,        \* whether the interpreter finalizes an object as soon
                        \* as nothing refers to it
    naming              \* the file name substitution applied on its own

vars == << arg, directory, timeout, targets, idx, pc, paths_and_objids,
           retval, raised, fetched, log, outcomes, target, step, waited,
           expects, sent, rtn, before, after, OBJID, FTPURL, exc, children,
           refcounting, naming >>

getvars  == << arg, directory, timeout, targets, refcounting, naming >>
talkvars == << target, step, waited, expects, sent, rtn, before, after,
               OBJID, FTPURL, exc >>

----
\* Bounds of the model.

MaxTargets == 3         \* longest list of targets passed to get
MaxTimeout == 2         \* largest timeout configured on the instance
MaxBefore  == 3         \* longest transcript before the e-mail prompt
MaxUrl     == 3         \* longest text between 'ftp' and the final line break
MaxFormat  == 3         \* longest file name template
MaxId      == 1         \* longest object ID given to the substitution
MaxName    == 2         \* longest target name given to the substitution

----
\* Texts.

Unset == << "<unset>" >>            \* a name not yet bound
NotReturned == << Unset >>          \* get has not returned a list

Label == "object ID:"
CRLF  == "\r\n"
Whitespace == {" ", "\t", "\n", "\r", CRLF}
Digits == {"0", "1", "2", "3", "4", "5", "6", "7", "8", "9"}

Min(S) == CHOOSE x \in S : \A y \in S : x <= y
Max(S) == CHOOSE x \in S : \A y \in S : x >= y

SeqsUpTo(A, n) == UNION { [1..k -> A] : k \in 0..n }

RECURSIVE Flatten(_)
Flatten(ss) == IF ss = << >> THEN << >> ELSE Head(ss) \o Flatten(Tail(ss))

\* str.strip() and bytes.strip(): leading and trailing whitespace removed.
Strip(s) ==
    LET keep == { i \in 1..Len(s) : s[i] \notin Whitespace }
    IN  IF keep = {} THEN << >> ELSE SubSeq(s, Min(keep), Max(keep))

\* str.replace(old, new) for a one-token old: every occurrence is replaced.
Replace(s, old, new) ==
    Flatten([ i \in 1..Len(s) |-> IF s[i] = old THEN new ELSE << s[i] >> ])

\* bytes.decode('utf-8') of an ASCII text: the same characters, as a str.
Utf8Decode(b) == [ i \in 1..Len(b) |-> b[i] ]

\* str(bytes): the repr b'...', in which a line break is written as the
\* escape sequence and no longer is a line break.
Escape(c) ==
    CASE c = CRLF -> << "\\", "r", "\\", "n" >>
      [] c = "\n" -> << "\\", "n" >>
      [] c = "\r" -> << "\\", "r" >>
      [] c = "\t" -> << "\\", "t" >>
      [] OTHER    -> << c >>

\* (The text taken as it is, as a decode would give it.)
PyStrRaw(b) == b

PyStr(b) == << "b", "'" >> \o Flatten([ i \in 1..Len(b) |-> Escape(b[i]) ]) \o << "'" >>

\* re '.' without DOTALL: any character but a newline.
Dot(c) == c \notin {"\n", CRLF}

\* re.compile('.*object ID: *(?P<OBJID>[0-9]*)').match(s): the greedy '.*'
\* backs off to the last label it can reach without crossing a newline; the
\* blanks and the digits after it may both be empty.
RunEnd(s, i, S) ==
    Min({ j \in i..(Len(s) + 1) : j = Len(s) + 1 \/ s[j] \notin S })

PatternMatch(s) ==
    LET at == { p \in 1..Len(s) : s[p] = Label /\ \A q \in 1..(p - 1) : Dot(s[q]) }
    IN  IF at = {}
        THEN [ matched |-> FALSE, OBJID |-> << >> ]
        ELSE LET d == RunEnd(s, Max(at) + 1, {" "})
                 e == RunEnd(s, d, Digits)
             IN  [ matched |-> TRUE, OBJID |-> SubSeq(s, d, e - 1) ]

\* os.path.join(directory, filename).
IsAbs(f) == f # << >> /\ f[1] = "/"
Join(a, f) ==
    IF IsAbs(f) THEN f
    ELSE IF a = << >> \/ a[Len(a)] = "/" THEN a \o f
    ELSE a \o << "/" >> \o f

----
\* Configuration of the instance (class attributes of SBSPK).

email      == << "sorry@noemail.org" >>
startdate  == << "2010-01-01" >>
stopdate   == << "2040-01-01" >>
fileformat == << "<OBJID>", "_", "<TARGET>", ".bsp" >>
DefaultTimeout == 5

\* Exceptions.
NoExc         == [ type |-> "none", msg |-> << >> ]
TIMEOUT       == [ type |-> "pexpect.TIMEOUT", msg |-> << >> ]
\* (The error raised without a message.)
SBSPKErrorBare(m) == [ type |-> "SBSPKError", msg |-> << >> ]
SBSPKError(m) == [ type |-> "SBSPKError", msg |-> m ]

----
\* What the model may be given.

\* Target names: 'A B', and 'A' after a blank and before a tab.
Targets == { << "A", " ", "B" >>, << " ", "A", "\t" >> }
Dirs    == { << "/", "tmp" >>, << "d", "/" >> }

StrArg(t)   == [ isstr |-> TRUE,  val |-> t ]
ListArg(ts) == [ isstr |-> FALSE, val |-> ts ]
Args == { StrArg(t) : t \in Targets }
            \cup { ListArg(ts) : ts \in SeqsUpTo(Targets, MaxTargets) }

\* Texts the channel delivers before the e-mail prompt.
Transcripts(n) == SeqsUpTo({Label, " ", "7", CRLF}, n)
\* Texts that match 'ftp.*\r\n' (pexpect compiles its patterns with DOTALL).
FtpLines(n) == { << "ftp" >> \o m \o << CRLF >> : m \in SeqsUpTo({"://", "h", " ", CRLF}, n) }

\* The transcripts of a small stub of the channel.
StubTranscripts == { << Label, " ", "7" >>, << Label >>, << "7" >> }
StubFtpLines    == { << "ftp", "://", "h", CRLF >>, << "ftp", CRLF >> }

\* File name templates, object IDs as talk returns them (digits, possibly
\* none) and target names, a name possibly spelling out a placeholder.
Formats(n) == SeqsUpTo({"<OBJID>", "<TARGET>", "_"}, n)
Ids(n)     == SeqsUpTo({"7"}, n)
Names(n)   == SeqsUpTo({"A", " ", "<OBJID>", "<TARGET>"}, n)

----
\* SBSPK.get, SBSPK.__get_one and talk.

\* No file name computed on its own.
NoNaming ==
    [ fileformat |-> fileformat, objid |-> Unset, target |-> Unset,
      filename |-> Unset, again |-> Unset ]

Init0 ==
    /\ children = {}
    /\ targets = << >>
    /\ idx = 0
    /\ pc = "idle"
    /\ paths_and_objids = << >>
    /\ retval = NotReturned
    /\ raised = NoExc
    /\ fetched = << >>
    /\ log = << >>
    /\ outcomes = << >>
    /\ target = Unset
    /\ step = 0
    /\ waited = 0
    /\ expects = 0
    /\ sent = << >>
    /\ rtn = -1
    /\ before = Unset
    /\ after = Unset
    /\ OBJID = Unset
    /\ FTPURL = Unset
    /\ exc = NoExc

\* get called on an instance with the default timeout.
Init ==
    /\ arg \in Args
    /\ directory \in Dirs
    /\ timeout = DefaultTimeout
    /\ refcounting \in BOOLEAN
    /\ naming = NoNaming
    /\ Init0

\* get called for one target on an instance with a configured timeout.
InitTalk ==
    /\ arg = ListArg(<< << "A", " ", "B" >> >>)
    /\ directory = << "/", "tmp" >>
    /\ timeout \in 1..MaxTimeout
    /\ refcounting \in BOOLEAN
    /\ naming = NoNaming
    /\ Init0

\* (The target normalised for the file name before it is sent.)
GetOneTargetNormalised(t) == Replace(Strip(t), " ", << "_" >>)

\* __get_one strips the target and calls talk, which spawns the telnet
\* child and blocks in its first expect call.
GetOneTarget(t) == Strip(t)

StartOne(ts, k, lg) ==
    /\ idx' = k
    /\ target' = GetOneTarget(ts[k])
    /\ pc' = "talk"
    /\ step' = 1
    /\ waited' = 0
    /\ expects' = 1
    /\ sent' = << >>
    /\ rtn' = -1
    /\ before' = Unset
    /\ after' = Unset
    /\ OBJID' = Unset
    /\ FTPURL' = Unset
    /\ exc' = NoExc
    /\ log' = Append(lg, << "spawn", k >>)
    /\ children' = children \cup {k}

\* (The loop run over a string as it is, character by character.)
NormaliseChars(a) ==
    IF a.isstr THEN [ i \in 1..Len(a.val) |-> << a.val[i] >> ] ELSE a.val

\* get: a single string becomes a one-element list; the loop starts.
Normalise(a) == IF a.isstr THEN << a.val >> ELSE a.val

Get ==
    /\ pc = "idle"
    /\ targets' = Normalise(arg)
    /\ IF targets' = << >>
       THEN /\ pc' = "returned"
            /\ retval' = paths_and_objids
            /\ UNCHANGED << idx, log, children >>
            /\ UNCHANGED talkvars
       ELSE /\ StartOne(targets', 1, log)
            /\ UNCHANGED retval
    /\ UNCHANGED << arg, directory, timeout, refcounting, naming, paths_and_objids, raised, fetched, outcomes >>

\* (The last expect call given a longer timeout than the others.)
StepTimeoutUneven(i) == IF i = 11 THEN timeout + 1 ELSE timeout

\* Every expect call of talk is given timeout=dt, the timeout of the instance.
StepTimeout(i) == timeout

\* (The timeout replaced by an error of the package.)
GetOneExceptWrapped(e) ==
    IF e = TIMEOUT THEN SBSPKError(<< "TIMED OUT. Perhaps inteface changed?" >>) ELSE e

\* The except clause of __get_one logs and re-raises; get catches nothing.
GetOneExcept(e) == e

\* The outcome of a session: the pair talk returns or the exception it raises.
Success(url, objid) == [ ok |-> TRUE, locator |-> url, objid |-> objid, exc |-> NoExc ]
Failure(e)          == [ ok |-> FALSE, locator |-> << >>, objid |-> << >>, exc |-> e ]

\* An exception raised inside talk leaves get.
Fail(e) ==
    /\ exc' = e
    /\ raised' = GetOneExcept(e)
    /\ pc' = "raised"
    /\ log' = Append(log, << "end", idx >>)
    /\ outcomes' = Append(outcomes, Failure(e))

\* Time passes while expect blocks.
Tick ==
    /\ pc = "talk"
    /\ waited < StepTimeout(step)
    /\ waited' = waited + 1
    /\ UNCHANGED << getvars, idx, pc, paths_and_objids, retval, raised, fetched, log, outcomes, children >>
    /\ UNCHANGED << target, step, expects, sent, rtn, before, after, OBJID, FTPURL, exc >>

\* (The expect call made again after its timeout.)
TimeoutRetry ==
    /\ pc = "talk"
    /\ waited = timeout
    /\ waited' = 0
    /\ expects' = expects + 1
    /\ UNCHANGED << getvars, idx, pc, paths_and_objids, retval, raised, fetched, log, outcomes, children >>
    /\ UNCHANGED << target, step, sent, rtn, before, after, OBJID, FTPURL, exc >>

\* The timeout of the current expect call has elapsed: pexpect.TIMEOUT.
Timeout ==
    /\ pc = "talk"
    /\ waited = StepTimeout(step)
    /\ Fail(TIMEOUT)
    /\ UNCHANGED << getvars, idx, paths_and_objids, retval, fetched, children >>
    /\ UNCHANGED << target, step, waited, expects, sent, rtn, before, after, OBJID, FTPURL >>

\* The expect call of step i returns in time.
Matches(i) == pc = "talk" /\ step = i /\ waited < StepTimeout(i)

\* talk sends a line and blocks in the next expect call.
Proceed(i, line) ==
    /\ sent' = Append(sent, line)
    /\ step' = i + 1
    /\ waited' = 0
    /\ expects' = expects + 1

GetSame ==
    UNCHANGED << getvars, idx, pc, paths_and_objids, retval, raised, fetched, log, outcomes, children >>

ExpectHorizons ==
    /\ Matches(1)
    /\ Proceed(1, << "PAGE" >>)
    /\ GetSame
    /\ UNCHANGED << target, rtn, before, after, OBJID, FTPURL, exc >>

ExpectPaging ==
    /\ Matches(2)
    /\ Proceed(2, target)
    /\ GetSame
    /\ UNCHANGED << target, rtn, before, after, OBJID, FTPURL, exc >>

ExpectContinue ==
    /\ Matches(3)
    /\ Proceed(3, << "yes" >>)
    /\ GetSame
    /\ UNCHANGED << target, rtn, before, after, OBJID, FTPURL, exc >>

\* (The index of a third pattern tested.)
NoMatchFoundOffByOne(r) == r = 2

\* rtn == 1: the second pattern, 'No matches found', matched.
NoMatchFound(r) == r = 1

ExpectSPK ==
    /\ Matches(4)
    /\ \E r \in {0, 1} :
          /\ rtn' = r
          /\ IF NoMatchFound(r)
             THEN /\ Fail(SBSPKError(<< "No match found for " >> \o target))
                  /\ UNCHANGED << idx, paths_and_objids, retval, fetched >>
                  /\ UNCHANGED << step, waited, expects, sent >>
             ELSE /\ Proceed(4, << "s" >>)
                  /\ UNCHANGED << idx, pc, paths_and_objids, retval, raised, fetched, log, outcomes, exc >>
    /\ UNCHANGED << getvars, children >>
    /\ UNCHANGED << target, before, after, OBJID, FTPURL >>

\* The object ID is parsed out of str(th.before).
ParseObjid(b) == PatternMatch(PyStr(b))

ExpectEmail(texts) ==
    /\ Matches(5)
    /\ \E b \in texts :
          /\ before' = b
          /\ LET m == ParseObjid(b)
             IN  IF m.matched
                 THEN /\ OBJID' = m.OBJID
                      /\ Proceed(5, email)
                      /\ UNCHANGED << idx, pc, paths_and_objids, retval, raised, fetched, log, outcomes, exc >>
                 ELSE /\ Fail(SBSPKError(<< "Cannot parse object ID" >>))
                      /\ UNCHANGED << idx, paths_and_objids, retval, fetched >>
                      /\ UNCHANGED << step, waited, expects, sent, OBJID >>
    /\ UNCHANGED << getvars, children >>
    /\ UNCHANGED << target, rtn, after, FTPURL >>

ExpectConfirm ==
    /\ Matches(6)
    /\ Proceed(6, << "yes" >>)
    /\ GetSame
    /\ UNCHANGED << target, rtn, before, after, OBJID, FTPURL, exc >>

\* (The text transfer format accepted.)
ExpectFormatYes ==
    /\ Matches(7)
    /\ Proceed(7, << "yes" >>)
    /\ GetSame
    /\ UNCHANGED << target, rtn, before, after, OBJID, FTPURL, exc >>

ExpectFormat ==
    /\ Matches(7)
    /\ Proceed(7, << "NO" >>)
    /\ GetSame
    /\ UNCHANGED << target, rtn, before, after, OBJID, FTPURL, exc >>

ExpectStart ==
    /\ Matches(8)
    /\ rtn' = 0
    /\ Proceed(8, startdate)
    /\ GetSame
    /\ UNCHANGED << target, before, after, OBJID, FTPURL, exc >>

ExpectStop ==
    /\ Matches(9)
    /\ rtn' = 0
    /\ Proceed(9, stopdate)
    /\ GetSame
    /\ UNCHANGED << target, before, after, OBJID, FTPURL, exc >>

ExpectMore ==
    /\ Matches(10)
    /\ rtn' = 0
    /\ Proceed(10, << "no" >>)
    /\ GetSame
    /\ UNCHANGED << target, before, after, OBJID, FTPURL, exc >>

\* The locator is th.after, stripped and decoded.
Locator(a) == Utf8Decode(Strip(a))

\* (The loop going on to the next target while the file is still to be
\* fetched.)
ExpectFtpNoWait(texts) ==
    /\ Matches(11)
    /\ idx < Len(targets)
    /\ \E a \in texts : outcomes' = Append(outcomes, Success(Locator(a), OBJID))
    /\ StartOne(targets, idx + 1, Append(log, << "end", idx >>))
    /\ UNCHANGED << getvars, paths_and_objids, retval, raised, fetched >>

\* talk never closes the child it spawned.  When talk returns, nothing
\* refers to the child any more: an interpreter that counts references
\* finalizes it at once, which closes it, another one leaves it open to a
\* later collection.  When talk raises, the traceback of the exception
\* keeps the frame of talk and with it the child.
Unreferenced(k) == IF refcounting THEN children \ {k} ELSE children

\* The locator line arrived: talk sends 'quit' and returns (FTPURL, OBJID);
\* __get_one builds the file path and blocks in urlretrieve.
ExpectFtp(texts) ==
    /\ Matches(11)
    /\ \E a \in texts :
          /\ after' = a
          /\ FTPURL' = Locator(a)
          /\ outcomes' = Append(outcomes, Success(FTPURL', OBJID))
    /\ rtn' = 0
    /\ sent' = Append(sent, << "quit" >>)
    /\ step' = 12
    /\ pc' = "fetch"
    /\ log' = Append(log, << "end", idx >>)
    /\ children' = Unreferenced(idx)
    /\ UNCHANGED << getvars, idx, paths_and_objids, retval, raised, fetched >>
    /\ UNCHANGED << target, waited, expects, before, OBJID, exc >>

\* (The target put into the file name as it is.)
FileNameRaw(objid, t) ==
    Replace(Replace(fileformat, "<OBJID>", objid), "<TARGET>", t)

\* (The target put into the template before the object ID.)
SubstituteTargetFirst(fmt, objid, t) ==
    Replace(Replace(fmt, "<TARGET>", Replace(t, " ", << "_" >>)), "<OBJID>", objid)

\* The two chained replacements of __get_one on a template.
Substitute(fmt, objid, t) ==
    Replace(Replace(fmt, "<OBJID>", objid), "<TARGET>", Replace(t, " ", << "_" >>))

\* The file name and path __get_one computes.
FileName(objid, t) == Substitute(fileformat, objid, t)

FilePath(dir, objid, t) == Join(dir, FileName(objid, t))

\* (The file fetched a second time.)
UrlRetrieveTwice ==
    /\ pc = "fetch"
    /\ LET filepath == FilePath(directory, OBJID, target)
       IN  /\ fetched' = Append(Append(fetched, [ url |-> FTPURL, filepath |-> filepath ]),
                              [ url |-> FTPURL, filepath |-> filepath ])
           /\ paths_and_objids' = Append(paths_and_objids, << filepath, OBJID >>)
    /\ IF idx < Len(targets)
       THEN /\ StartOne(targets, idx + 1, Append(log, << "fetched", idx >>))
            /\ UNCHANGED retval
       ELSE /\ pc' = "returned"
            /\ retval' = paths_and_objids'
            /\ log' = Append(log, << "fetched", idx >>)
            /\ UNCHANGED << idx, children >>
            /\ UNCHANGED talkvars
    /\ UNCHANGED << getvars, raised, outcomes >>

\* (The fetch put off until every session has ended.)
UrlRetrieveDeferred ==
    /\ pc = "fetch"
    /\ LET filepath == FilePath(directory, OBJID, target)
       IN  /\ fetched' = fetched
           /\ paths_and_objids' = Append(paths_and_objids, << filepath, OBJID >>)
    /\ IF idx < Len(targets)
       THEN /\ StartOne(targets, idx + 1, Append(log, << "fetched", idx >>))
            /\ UNCHANGED retval
       ELSE /\ pc' = "returned"
            /\ retval' = paths_and_objids'
            /\ log' = Append(log, << "fetched", idx >>)
            /\ UNCHANGED << idx, children >>
            /\ UNCHANGED talkvars
    /\ UNCHANGED << getvars, raised, outcomes >>

\* urlretrieve returns: the result is appended and the loop goes on to the
\* next target or get returns the list.
UrlRetrieve ==
    /\ pc = "fetch"
    /\ LET filepath == FilePath(directory, OBJID, target)
       IN  /\ fetched' = Append(fetched, [ url |-> FTPURL, filepath |-> filepath ])
           /\ paths_and_objids' = Append(paths_and_objids, << filepath, OBJID >>)
    /\ IF idx < Len(targets)
       THEN /\ StartOne(targets, idx + 1, Append(log, << "fetched", idx >>))
            /\ UNCHANGED retval
       ELSE /\ pc' = "returned"
            /\ retval' = paths_and_objids'
            /\ log' = Append(log, << "fetched", idx >>)
            /\ UNCHANGED << idx, children >>
            /\ UNCHANGED talkvars
    /\ UNCHANGED << getvars, raised, outcomes >>

----
\* The specifications.

Step(transcripts, ftplines) ==
    \/ Get
    \/ Tick
    \/ Timeout
    \/ ExpectHorizons
    \/ ExpectPaging
    \/ ExpectContinue
    \/ ExpectSPK
    \/ ExpectEmail(transcripts)
    \/ ExpectConfirm
    \/ ExpectFormat
    \/ ExpectStart
    \/ ExpectStop
    \/ ExpectMore
    \/ ExpectFtp(ftplines)
    \/ UrlRetrieve

\* get over a list of targets, against a stub of the channel.
Next == Step(StubTranscripts, StubFtpLines)
Spec == Init /\ [][Next]_vars

\* One session, against every transcript within the bounds.
NextTalk == Step(Transcripts(MaxBefore), FtpLines(MaxUrl))
SpecTalk == InitTalk /\ [][NextTalk]_vars

\* One session against the stub.  An expect call blocks for no longer than
\* its timeout and urlretrieve returns, so a step that stays possible is
\* taken.
\* (Every step changes the place of get, the state of the session or the
\* time waited.)
progress == << pc, step, waited >>
SpecSession == InitTalk /\ [][Next]_vars /\ WF_progress(Next)

\* The file name substitution on its own: a template, an object ID and a
\* stripped target name are chosen, the substitution is applied to the
\* template and then once more to its own result.
InitName ==
    /\ arg = ListArg(<< >>)
    /\ directory = << "/", "tmp" >>
    /\ timeout = DefaultTimeout
    /\ refcounting = TRUE
    /\ naming \in [ fileformat : Formats(MaxFormat), objid : Ids(MaxId),
                     target : Names(MaxName), filename : {Unset}, again : {Unset} ]
    /\ Init0

NameSame ==
    UNCHANGED << arg, directory, timeout, targets, idx, pc, paths_and_objids,
                 retval, raised, fetched, log, outcomes, children, refcounting,
                 talkvars >>

MakeName ==
    /\ naming.filename = Unset
    /\ naming' = [ naming EXCEPT
                     !.filename = Substitute(naming.fileformat, naming.objid, naming.target) ]
    /\ NameSame

MakeNameAgain ==
    /\ naming.filename # Unset
    /\ naming.again = Unset
    /\ naming' = [ naming EXCEPT
                     !.again = Substitute(naming.filename, naming.objid, naming.target) ]
    /\ NameSame

NextName == MakeName \/ MakeNameAgain
SpecName == InitName /\ [][NextName]_vars

----
\* Vocabulary of the properties.

\* The lines of a complete session, in the order the service expects them.
Script ==
    << << "PAGE" >>, target, << "yes" >>, << "s" >>, email, << "yes" >>,
       << "NO" >>, startdate, stopdate, << "no" >>, << "quit" >> >>

\* Number of prompts of the current session that have matched.
Answered == IF exc.type = "SBSPKError" THEN step ELSE IF step = 0 THEN 0 ELSE step - 1

Succeeded  == step = 12
TimedOut   == exc = TIMEOUT
NotFound   == exc = SBSPKError(<< "No match found for " >> \o target)
ParseError == exc = SBSPKError(<< "Cannot parse object ID" >>)

\* A text without the whitespace and line terminators around it.
RECURSIVE DropLeft(_)
DropLeft(s) ==
    IF s # << >> /\ Head(s) \in Whitespace THEN DropLeft(Tail(s)) ELSE s
RECURSIVE DropRight(_)
DropRight(s) ==
    IF s # << >> /\ s[Len(s)] \in Whitespace
    THEN DropRight(SubSeq(s, 1, Len(s) - 1)) ELSE s
Trimmed(s) == DropRight(DropLeft(s))

\* The digit run that follows the label in a transcript: the digits after
\* the last label and the blanks behind it.
RECURSIVE DropBlanks(_)
DropBlanks(s) == IF s # << >> /\ Head(s) = " " THEN DropBlanks(Tail(s)) ELSE s
RECURSIVE TakeDigits(_)
TakeDigits(s) ==
    IF s # << >> /\ Head(s) \in Digits THEN << Head(s) >> \o TakeDigits(Tail(s)) ELSE << >>
HasLabel(t) == \E p \in 1..Len(t) : t[p] = Label
DigitsAfterLabel(t) ==
    LET p == Max({ q \in 1..Len(t) : t[q] = Label })
    IN  TakeDigits(DropBlanks(SubSeq(t, p + 1, Len(t))))

\* Some label of the transcript is followed by at least one digit.
HasParsableId(t) ==
    \E p \in 1..Len(t) :
        t[p] = Label /\ TakeDigits(DropBlanks(SubSeq(t, p + 1, Len(t)))) # << >>

\* A scheme, '://' and an address without whitespace.
WellFormedUrl(u) ==
    /\ Len(u) >= 3
    /\ u[1] = "ftp"
    /\ u[2] = "://"
    /\ \A i \in 3..Len(u) : u[i] \notin Whitespace \cup {"://"}

\* Spaces replaced by underscores.
Underscored(t) == [ i \in 1..Len(t) |-> IF t[i] = " " THEN "_" ELSE t[i] ]

\* The file of the default template for an identifier and a target name,
\* inside a directory.
DefaultName(objid, name) == objid \o << "_" >> \o name \o << ".bsp" >>
Inside(dir, f) == IF dir[Len(dir)] = "/" THEN dir \o f ELSE dir \o << "/" >> \o f

\* Events of the log.
Events(kind) == { i \in 1..Len(log) : log[i][1] = kind }
Event(kind, k) == { i \in 1..Len(log) : log[i] = << kind, k >> }

----
\* C1: when every awaited prompt matches in the documented order (no
\* timeout, the kernel-type selector at the fourth prompt, the label in the
\* text before the e-mail prompt) the session succeeds, and a successful
\* session returns the matched locator line without the whitespace around
\* it, and the digit run that follows the label in the text received before
\* the e-mail prompt.
C1_HappyPath ==
    /\ Succeeded =>
          /\ exc = NoExc
          /\ rtn = 0
          /\ FTPURL = Trimmed(after)
          /\ OBJID = DigitsAfterLabel(before)
          /\ outcomes[idx] = Success(Trimmed(after), DigitsAfterLabel(before))
    /\ (Len(outcomes) = idx /\ idx > 0 /\ ~TimedOut /\ ~NotFound
            /\ before # Unset /\ HasLabel(before)) => Succeeded

C1_Witness ==
    /\ Succeeded
    /\ before = << CRLF, Label, "7" >>
    /\ after = << "ftp", "://", "h", " ", CRLF >>
    /\ OBJID = << "7" >>
    /\ FTPURL = << "ftp", "://", "h" >>

\* C2: the lines sent are a prefix of the fixed sequence, no line is sent
\* before the prompt of its state has matched, and a successful session has
\* sent the whole sequence.
C2_ScriptOrder ==
    /\ Len(sent) <= Len(Script)
    /\ sent = SubSeq(Script, 1, Len(sent))
    /\ Len(sent) <= Answered
    /\ Succeeded => sent = Script

C2_Witness == Succeeded /\ Len(sent) = 11 /\ sent[2] = << "A", " ", "B" >>

\* C3: once 'No matches found' has matched at the fourth prompt the session
\* has failed with the target-not-found error, and the lines sent are, and
\* stay, the three sent before it: the kernel-type selection is not sent.
C3_NoMatchAborts ==
    rtn = 1 =>
        /\ step = 4
        /\ NotFound
        /\ raised = exc
        /\ pc = "raised"
        /\ sent = << << "PAGE" >>, target, << "yes" >> >>

C3_Witness == rtn = 1 /\ pc = "raised" /\ Len(sent) = 3

\* C4 (as claimed): when the e-mail prompt is reached and the transcript
\* holds no label followed by at least one digit, the session fails with
\* the parse error; every returned object ID is a non-empty digit string.
C4_ParseErrorClaim ==
    /\ (before # Unset /\ ~HasParsableId(before)) => ParseError
    /\ Succeeded => (OBJID # << >> /\ \A i \in 1..Len(OBJID) : OBJID[i] \in Digits)

\* C5: no expect call waits longer than the configured timeout; a session
\* times out only when the timeout of its step has elapsed, in that step's
\* only expect call, with nothing sent past that step; and once the timeout
\* has elapsed the only thing the session does is fail with the timeout.
C5_TimeoutState ==
    /\ waited <= timeout
    /\ TimedOut =>
          /\ waited = timeout
          /\ step \in 1..11
          /\ expects = step
          /\ sent = SubSeq(Script, 1, step - 1)
          /\ raised = TIMEOUT
          /\ pc = "raised"

C5_Timeout ==
    /\ []C5_TimeoutState
    /\ [][(pc = "talk" /\ waited = timeout) => (exc' = TIMEOUT /\ step' = step)]_vars
    /\ [][TimedOut => UNCHANGED << step, expects, sent, idx >>]_vars

C5_Witness == TimedOut /\ step = 11 /\ waited = 2 /\ Len(sent) = 10

\* C6: when get has raised, the exception is the one the failed session
\* raised, the failed session is the last one started, only the targets
\* before it were fetched, and get has returned no list.
C6_FailurePropagates ==
    pc = "raised" =>
        /\ exc # NoExc
        /\ raised = exc
        /\ outcomes[idx] = Failure(raised)
        /\ retval = NotReturned
        /\ Cardinality(Events("spawn")) = idx
        /\ Len(fetched) = idx - 1
        /\ Cardinality(Events("fetched")) = idx - 1
        /\ log[Len(log)] = << "end", idx >>

C6_Witness == pc = "raised" /\ idx = 2 /\ Len(targets) = 3 /\ TimedOut

\* C7 (as claimed): the i-th result is the default file name, filled with
\* the i-th identifier and the target with its spaces replaced by
\* underscores, inside the directory, paired with the identifier.
C7_ResultsClaim ==
    pc = "returned" =>
        /\ Len(retval) = Len(targets)
        /\ \A i \in 1..Len(targets) :
              retval[i] = << Inside(directory,
                                    DefaultName(outcomes[i].objid, Underscored(targets[i]))),
                             outcomes[i].objid >>

\* C7 (amended): as claimed, for the target without the whitespace around it.
C7_Results ==
    pc = "returned" =>
        /\ Len(retval) = Len(targets)
        /\ Len(outcomes) = Len(targets)
        /\ \A i \in 1..Len(targets) :
              /\ outcomes[i].ok
              /\ retval[i] = << Inside(directory,
                                       DefaultName(outcomes[i].objid,
                                                   Underscored(Trimmed(targets[i])))),
                                outcomes[i].objid >>

C7_Witness ==
    /\ pc = "returned"
    /\ targets = << << " ", "A", "\t" >>, << "A", " ", "B" >> >>
    /\ retval[1][2] # retval[2][2]

\* C8: the events of the log come target by target: a session is spawned,
\* ends, and its file is fetched before anything of the next target happens.
C8_Sequential ==
    /\ \A i, j \in 1..Len(log) : i < j => log[i][2] <= log[j][2]
    /\ \A k \in 1..Len(targets) :
          /\ Cardinality(Event("spawn", k)) <= 1
          /\ \A j \in Event("end", k) : \E i \in Event("spawn", k) : i < j
          /\ \A j \in Event("fetched", k) : \E i \in Event("end", k) : i < j
          /\ \A j \in Event("spawn", k + 1) :
                /\ \E i \in Event("end", k) : i < j
                /\ outcomes[k].ok => \E i \in Event("fetched", k) : i < j

C8_Witness ==
    /\ Len(targets) = 3
    /\ pc = "talk"
    /\ idx = 3
    /\ Len(fetched) = 2

\* C9 (as claimed): the locator of a successful session is a well-formed URL.
C9_LocatorClaim == Succeeded => WellFormedUrl(FTPURL)

\* C10 (as claimed): the target line sent is the target passed to get.
C10_VerbatimClaim == Len(sent) >= 2 => sent[2] = targets[idx]

\* C10 (amended): the target line sent is the target passed to get without
\* the whitespace around it, its other characters unchanged; the file name
\* alone has underscores for its spaces.
C10_Verbatim ==
    /\ Len(sent) >= 2 => sent[2] = Trimmed(targets[idx])
    /\ \A i \in 1..Len(paths_and_objids) :
          paths_and_objids[i][1] =
              Inside(directory, DefaultName(outcomes[i].objid,
                                            Underscored(Trimmed(targets[i]))))

C10_Witness ==
    /\ Len(sent) >= 2
    /\ targets[idx] = << "A", " ", "B" >>
    /\ sent[2] = << "A", " ", "B" >>
    /\ Len(paths_and_objids) = 1
    /\ targets[1] = << " ", "A", "\t" >>

\* A template with each placeholder replaced where it stands.
Filled(fmt, objid, name) ==
    Flatten([ i \in 1..Len(fmt) |->
                IF fmt[i] = "<OBJID>" THEN objid
                ELSE IF fmt[i] = "<TARGET>" THEN name
                ELSE << fmt[i] >> ])
HasPlaceholder(f) == \E i \in 1..Len(f) : f[i] \in {"<OBJID>", "<TARGET>"}

\* C11 (as claimed): the substitution puts the object ID and the target
\* with underscores for its spaces in the place of every placeholder of the
\* template, and applied again to its own result it changes nothing.
C11_SubstitutionClaim ==
    /\ naming.filename # Unset =>
          naming.filename = Filled(naming.fileformat, naming.objid, Underscored(naming.target))
    /\ naming.again # Unset => naming.again = naming.filename

\* C11 (amended): as claimed for the first application; applied again it
\* changes nothing whenever the first result holds no placeholder.
C11_Substitution ==
    /\ naming.filename # Unset =>
          naming.filename = Filled(naming.fileformat, naming.objid, Underscored(naming.target))
    /\ (naming.again # Unset /\ ~HasPlaceholder(naming.filename)) =>
          naming.again = naming.filename

C11_Witness ==
    /\ naming.again # Unset
    /\ naming.fileformat = << "<TARGET>", "<OBJID>", "<TARGET>" >>
    /\ naming.target = << "A", " " >>
    /\ naming.objid = << "7" >>
    /\ naming.again = << "A", "_", "7", "A", "_" >>

\* C12 (as claimed): at most one telnet child is open at any time, and the
\* child of a session that has reached its outcome, success or failure, is
\* closed, so that it is closed before the next session's child is spawned.
C12_OneChannelClaim ==
    /\ Cardinality(children) <= 1
    /\ \A k \in 1..Len(outcomes) : k \notin children

\* The kind of a failure, as a caller can tell it from the exception.
Kinds == {"ChannelTimeout", "TargetNotFound", "ParseError"}
Kind(e) ==
    CASE e.type = "pexpect.TIMEOUT" -> "ChannelTimeout"
      [] e.type = "SBSPKError" /\ e.msg # << >> /\ e.msg[1] = "No match found for "
            -> "TargetNotFound"
      [] e.type = "SBSPKError" /\ e.msg = << "Cannot parse object ID" >>
            -> "ParseError"
      [] OTHER -> "unknown"

\* C13 (as claimed): a failed session has one of the three kinds, and the
\* detail of an error raised by talk is the transcript read at the point of
\* failure.
C13_FailureDetailClaim ==
    exc # NoExc =>
        /\ Kind(exc) \in Kinds
        /\ (exc.type = "SBSPKError" /\ before # Unset) => exc.msg = before

\* C13 (amended): a failed session has one of the three kinds, each for its
\* own cause: the timeout for an expect call whose timeout elapsed, target
\* not found for 'No matches found' at the fourth prompt, the parse error
\* for a transcript without the label; the two errors raised by talk carry
\* a fixed message, with the target name after it for target not found, and
\* nothing of the transcript.
C13_FailureKinds ==
    exc # NoExc =>
        /\ Kind(exc) \in Kinds
        /\ Kind(exc) = "ChannelTimeout" <=> (waited = timeout /\ exc.type # "SBSPKError")
        /\ Kind(exc) = "TargetNotFound" <=> (step = 4 /\ rtn = 1)
        /\ Kind(exc) = "ParseError" <=> (step = 5 /\ before # Unset /\ ~HasLabel(before))
        /\ exc.type = "SBSPKError" =>
              exc.msg \in { << "No match found for " >> \o target,
                            << "Cannot parse object ID" >> }
        /\ outcomes[idx] = Failure(exc)

C13_Witness ==
    /\ ParseError
    /\ before = << "7", CRLF, " " >>
    /\ pc = "raised"

\* The states of a session: in state number i talk is blocked in its i-th
\* expect call.
SessionStates ==
    << "Init", "PagingAck", "ContinuePrompt", "MatchOrNone", "EmailPrompt",
       "EmailConfirm", "FormatPrompt", "StartDatePrompt", "StopDatePrompt",
       "MoreObjectsPrompt", "LocatorWait", "Succeeded" >>
Terminal == Len(outcomes) = 1

\* C14: a session reaches an outcome, one outcome, either success or a
\* failure; until then it moves from each state to the next of the list,
\* making one expect call in each, and after the outcome it does not move.
C14_SessionEnds ==
    /\ <>Terminal
    /\ [](/\ Len(outcomes) <= 1
          /\ step \in 0..Len(SessionStates)
          /\ pc = "talk" => (step \in 1..11 /\ expects = step /\ ~Terminal)
          /\ Terminal =>
                /\ outcomes[1].ok <=> (Succeeded /\ exc = NoExc)
                /\ ~outcomes[1].ok <=> (step \in 1..11 /\ Kind(exc) \in Kinds)
                /\ expects = Min({step, 11}))
    /\ [][step' = step + 1]_step
    /\ [][~Terminal]_<< outcomes, talkvars >>

C14_Witness ==
    /\ Terminal
    /\ SessionStates[step] = "Succeeded"
    /\ expects = 11
    /\ pc = "returned"

\* The one string get was called with, on its own or as the only element of
\* a list.
OneTarget == arg.isstr \/ Len(arg.val) = 1
Only == IF arg.isstr THEN arg.val ELSE arg.val[1]

\* C15: get called with a string does what get called with the list of that
\* one string does; in either case the loop runs over the one-element list,
\* one session is spawned and is sent the whole stripped string, at most one
\* file is fetched, and get returns the one result of that string or raises
\* the failure of that session.
C15_SingleString ==
    (OneTarget /\ pc # "idle") =>
        /\ targets = << Only >>
        /\ idx = 1
        /\ Cardinality(Events("spawn")) = 1
        /\ target = Trimmed(Only)
        /\ Len(sent) >= 2 => sent[2] = Trimmed(Only)
        /\ Len(fetched) <= 1
        /\ pc = "returned" =>
              /\ Len(retval) = 1
              /\ retval[1] = << Inside(directory,
                                       DefaultName(outcomes[1].objid,
                                                   Underscored(Trimmed(Only)))),
                                outcomes[1].objid >>
              /\ fetched = << [ url |-> outcomes[1].locator, filepath |-> retval[1][1] ] >>
        /\ pc = "raised" =>
              /\ raised = outcomes[1].exc
              /\ retval = NotReturned
              /\ fetched = << >>

C15_Witness ==
    /\ arg = StrArg(<< "A", " ", "B" >>)
    /\ pc = "returned"
    /\ retval[1][1] = << "d", "/", "7", "_", "A", "_", "B", ".bsp" >>

\* The sessions that ended in success, and the calls of urlretrieve made,
\* the one in progress included.
Ok == { k \in 1..Len(outcomes) : outcomes[k].ok }
Invoked == Len(fetched) + (IF pc = "fetch" THEN 1 ELSE 0)

\* C16: urlretrieve is called once for each session that succeeded, after
\* the session has ended, with the locator of that session and the path made
\* of the directory, that session's object ID and its target; it is not
\* called for a session that failed.
C16_FetchPerSuccess ==
    /\ Invoked = Cardinality(Ok)
    /\ \A k \in 1..Len(outcomes) :
          /\ Cardinality(Event("fetched", k)) <= 1
          /\ \A f \in Event("fetched", k) : \E e \in Event("end", k) : e < f
          /\ ~outcomes[k].ok => (Event("fetched", k) = {} /\ Len(fetched) < k)
    /\ \A i \in 1..Len(fetched) :
          /\ outcomes[i].ok
          /\ Event("fetched", i) # {}
          /\ fetched[i].url = outcomes[i].locator
          /\ fetched[i].filepath =
                Inside(directory, DefaultName(outcomes[i].objid,
                                              Underscored(Trimmed(targets[i]))))

C16_Witness ==
    /\ pc = "raised"
    /\ idx = 3
    /\ Len(fetched) = 2
    /\ fetched[1].url # fetched[2].url
    /\ outcomes[1].objid # outcomes[2].objid

\* The lines sent that are a given line.
Sent(line) == { i \in 1..Len(sent) : sent[i] = line }

\* C17 (as claimed): a failed session has sent the lines of the prompts
\* answered before the failure and nothing else, in particular not 'quit';
\* 'quit' is sent only as the last line of a session that succeeded, once
\* the locator has been extracted; and when the transcript holds no object
\* ID that can be parsed, the e-mail address is not sent.
C17_SilentClaim ==
    /\ exc # NoExc =>
          /\ Sent(<< "quit" >>) = {}
          /\ TimedOut => sent = SubSeq(Script, 1, step - 1)
          /\ NotFound => sent = SubSeq(Script, 1, 3)
          /\ ParseError => sent = SubSeq(Script, 1, 4)
    /\ Sent(<< "quit" >>) # {} =>
          /\ Succeeded
          /\ exc = NoExc
          /\ FTPURL = Trimmed(after)
          /\ Sent(<< "quit" >>) = {Len(sent)}
    /\ (before # Unset /\ ~HasParsableId(before)) => Sent(email) = {}

\* C18: when get has raised for target number k, the files of the k - 1
\* targets before it have been fetched, each from the locator of its session
\* to its path in the directory, and stay fetched, while the list of their
\* results has not been returned: the caller has the exception alone.
C18_NoRollback ==
    /\ [](pc = "raised" =>
            /\ raised # NoExc
            /\ raised = outcomes[idx].exc
            /\ retval = NotReturned
            /\ Len(paths_and_objids) = idx - 1
            /\ Len(fetched) = idx - 1
            /\ \A i \in 1..(idx - 1) :
                  /\ outcomes[i].ok
                  /\ fetched[i].url = outcomes[i].locator
                  /\ fetched[i].filepath = paths_and_objids[i][1]
                  /\ fetched[i].filepath =
                        Inside(directory, DefaultName(outcomes[i].objid,
                                                      Underscored(Trimmed(targets[i]))))
                  /\ \A e \in Event("end", idx) : \E f \in Event("fetched", i) : f < e)
    /\ [][/\ Len(fetched') >= Len(fetched)
          /\ SubSeq(fetched', 1, Len(fetched)) = fetched]_fetched

C18_Witness ==
    /\ pc = "raised"
    /\ ParseError
    /\ idx = 2
    /\ fetched = << [ url |-> << "ftp", "://", "h" >>,
                      filepath |-> << "d", "/", "7", "_", "A", ".bsp" >> ] >>

====
